---- MODULE Spec2Model ----
(***************************************************************************)
(* Figma-Context-MCP.                                                      *)
(* Spec: the single-pass traversal engine (extractFromDesign,              *)
(* processNodeWithExtractors, shouldProcessNode, shouldTraverseChildren);  *)
(* one pass over a finite raw tree is a state machine whose stack holds    *)
(* the activations of processNodeWithExtractors.                           *)
(* SpecRetry: withRetry around an arbitrary operation.                     *)
(* SpecFetch: fetchWithRetry, i.e. withRetry around fetch with its curl    *)
(* fallback.                                                               *)
(* SpecData, SpecComponents: one call of the get_figma_data and of the     *)
(* get_figma_components handler.                                           *)
(***************************************************************************)
EXTENDS Integers, Sequences, FiniteSets, TLC

\* ------------------------------------------------------------------ bounds
\* Number of raw nodes of the input forest.
MaxNodes == 4
\* options.maxDepth ranges over undefined and 0..MaxDepthOpt.
MaxDepthOpt == 1
\* Length of the configured extractor list.
NumExtractors == 2

VARIABLES
    nodes,      \* the raw forest: node index -> raw node record (never mutated)
    options,    \* TraversalOptions
    status,     \* "idle" | "running" | "returned" | "thrown"
    error,      \* what was thrown: "none" | "ExtractorError" | "TypeError"
    top,        \* the activation of extractFromDesign
    stack,      \* activations of processNodeWithExtractors, innermost last
    heap,       \* GlobalVars objects by reference: ref -> styles table
    calls,      \* every extractor invocation so far, in order
    output      \* the value extractFromDesign returned

\* withRetry (src/utils/error-handling.ts) and fetchWithRetry.
VARIABLES
    config,       \* finalConfig: DEFAULT_RETRY_CONFIG overlaid with the caller's
    attempt,      \* the loop variable of withRetry
    pc,           \* position of withRetry and of the operation it awaits
    running,      \* invocations of the operation that have not settled yet
    opResult,     \* how the last invocation settled
    lastError,    \* withRetry's lastError
    invocations,  \* every settled invocation so far, in order
    waits,        \* every setTimeout wait so far, in order
    outcome,      \* what withRetry returned or threw
    stages,       \* fetch and curl executions of fetchWithRetry, in order
    fetchError    \* the error the curl fallback was entered with

\* The tool handlers (src/mcp/tools).
VARIABLES
    request,      \* params and outputFormat the handler was called with
    hpc,          \* position of the handler
    caught,       \* the error a catch block of the handler holds
    design,       \* simplifiedDesign
    extractions,  \* every simplifyRawFigmaObject call so far, in order
    serviceCalls, \* every FigmaService call so far, in order
    todo,         \* targetComponents not yet visited by the details loop
    detailed,     \* detailedComponents
    response      \* what the handler returned

engineVars == <<nodes, options, status, error, top, stack, heap, calls, output>>
retryVars == <<config, attempt, pc, running, opResult, lastError, invocations,
               waits, outcome, stages, fetchError>>
handlerVars == <<request, hpc, caught, design, extractions, serviceCalls,
                 todo, detailed, response>>
serviceVars == <<retryVars, handlerVars>>
vars == <<engineVars, serviceVars>>

\* --------------------------------------------------- errors and retries
\* ErrorType.
ErrorTypes ==
    { "NETWORK_ERROR", "TIMEOUT_ERROR", "API_ERROR", "RATE_LIMIT_ERROR",
      "AUTHENTICATION_ERROR", "NOT_FOUND_ERROR", "PERMISSION_ERROR",
      "PARSING_ERROR", "VALIDATION_ERROR", "UNKNOWN_ERROR" }

\* DEFAULT_RETRY_CONFIG.
DefaultMaxAttempts == 3
DefaultBaseDelay == 1000
DefaultMaxDelay == 30000
DefaultBackoffFactor == 2
DefaultRetryableErrors ==
    { "NETWORK_ERROR", "TIMEOUT_ERROR", "RATE_LIMIT_ERROR", "API_ERROR" }
DEFAULT_RETRY_CONFIG ==
    [ maxAttempts |-> DefaultMaxAttempts,
      baseDelay |-> DefaultBaseDelay,
      maxDelay |-> DefaultMaxDelay,
      backoffFactor |-> DefaultBackoffFactor,
      retryableErrors |-> DefaultRetryableErrors ]

\* No object: the value of an absent cause, status or error.
Undefined == 0
\* An error object.  obj is its identity, status its status / statusCode
\* property, message its message as lower- and upper-case words.
NoError ==
    [ figma |-> FALSE, obj |-> Undefined, type |-> "", retryable |-> FALSE,
      status |-> Undefined, message |-> <<>>, cause |-> Undefined ]
NoResult == [ok |-> FALSE, value |-> "", error |-> NoError]
NoOutcome == [kind |-> "none", value |-> "", error |-> NoError]

NoRequest == [tool |-> "none"]
NoDesign == [defined |-> FALSE, extractors |-> <<>>, warnings |-> <<>>]
NoResponse ==
    [ returned |-> FALSE, isError |-> FALSE, errorType |-> "",
      warnings |-> <<>>, components |-> <<>> ]

\* The handler variables of a behaviour in which no tool is called.
HandlerIdle ==
    /\ request = NoRequest
    /\ hpc = "idle"
    /\ caught = NoError
    /\ design = NoDesign
    /\ extractions = <<>>
    /\ serviceCalls = <<>>
    /\ todo = <<>>
    /\ detailed = <<>>
    /\ response = NoResponse

\* The retry and fetch variables of a behaviour that never calls withRetry.
RetryIdle ==
    /\ config = DEFAULT_RETRY_CONFIG
    /\ attempt = 0
    /\ pc = "idle"
    /\ running = 0
    /\ opResult = NoResult
    /\ lastError = NoError
    /\ invocations = <<>>
    /\ waits = <<>>
    /\ outcome = NoOutcome
    /\ stages = <<>>
    /\ fetchError = NoError

\* ------------------------------------------------------------ raw input
NodeIds == 1..MaxNodes
\* "No node": the parent of a root, and the absent `parent` of the root context.
NoNode == 0
\* The separator of an override id such as "I6317:6851;6465:24096".
Sep == ";"
Letter == <<"a", "b", "c", "d", "e", "f", "g", "h">>
\* node.id of raw node i, as a string of characters
IdOf(i) == <<Letter[i]>>

\* Ancestors of node i under parent vector p (without i itself).
RECURSIVE AncestorsIn(_, _)
AncestorsIn(p, i) ==
    IF p[i] = NoNode THEN {} ELSE {p[i]} \cup AncestorsIn(p, p[i])

\* Every ordered forest on MaxNodes nodes, numbered in document order.
Shapes ==
    { p \in [NodeIds -> 0..(MaxNodes - 1)] :
        /\ p[1] = NoNode
        /\ \A i \in 2..MaxNodes :
              p[i] \in {NoNode, i - 1} \cup AncestorsIn(p, i - 1) }

\* The node indices in document order.
DocumentOrder == [k \in 1..MaxNodes |-> k]

ChildrenOf(p, i) == SelectSeq(DocumentOrder, LAMBDA j : p[j] = i)

\* The `overrides` payloads an INSTANCE may carry.
NoOverrides == [kind |-> "undefined", items |-> <<>>]
Entry(id) == [hasId |-> TRUE, id |-> id]
OverridesFor(kids) ==
    { NoOverrides,
      [kind |-> "object", items |-> <<>>],
      [kind |-> "array", items |-> <<>>],
      [kind |-> "array", items |-> << [hasId |-> FALSE, id |-> <<>>] >>],
      [kind |-> "array", items |-> << Entry(<<"z">>) >>] }
    \cup { [kind |-> "array", items |-> << Entry(IdOf(t)) >>] : t \in kids }
    \cup { [kind |-> "array", items |-> << Entry(<<"I", Sep>> \o IdOf(t)) >>] : t \in kids }
    \cup { [kind |-> "array", items |-> << Entry(IdOf(t) \o <<Sep>>) >>] : t \in kids }
    \cup { [kind |-> "array",
            items |-> << Entry(<<"z">>), Entry(<<"I", Sep>> \o IdOf(t) \o <<Sep, "z">>) >>] :
              t \in kids }

RawNode(p, i, inst, ov, invisible) ==
    LET kids == ChildrenOf(p, i) IN
    [ id       |-> IdOf(i),
      name     |-> Letter[i],
      type     |-> IF i = inst THEN "INSTANCE"
                   ELSE IF kids = <<>> THEN "VECTOR" ELSE "FRAME",
      visible  |-> (i # invisible),
      parent   |-> p[i],
      children |-> IF i # inst /\ kids = <<>>
                   THEN [kind |-> "undefined", items |-> <<>>]
                   ELSE [kind |-> "array", items |-> kids],
      overrides |-> IF i = inst THEN ov ELSE NoOverrides ]

Roots == SelectSeq(DocumentOrder, LAMBDA i : nodes[i].parent = NoNode)

RECURSIVE Depth(_)
Depth(i) == IF nodes[i].parent = NoNode THEN 0 ELSE 1 + Depth(nodes[i].parent)

RECURSIVE Ancestors(_)
Ancestors(i) ==
    IF nodes[i].parent = NoNode THEN {}
    ELSE {nodes[i].parent} \cup Ancestors(nodes[i].parent)

\* ------------------------------------------------------ utility helpers
\* isVisible(node): the visibility flag, true when absent.
IsVisible(node) == node.visible

\* hasValue(key, obj): the field is present.
HasValueChildren(node) == node.children.kind # "undefined"
HasValueOverrides(node) == node.overrides.kind # "undefined"
IsArray(field) == field.kind = "array"

\* String.prototype.includes for a single character.
Includes(s, c) == \E k \in 1..Len(s) : s[k] = c

\* String.prototype.split for a single-character separator.
RECURSIVE SplitFrom(_, _, _, _)
SplitFrom(s, c, k, cur) ==
    IF k > Len(s) THEN <<cur>>
    ELSE IF s[k] = c THEN <<cur>> \o SplitFrom(s, c, k + 1, <<>>)
    ELSE SplitFrom(s, c, k + 1, Append(cur, s[k]))

Split(s, c) == SplitFrom(s, c, 1, <<>>)

\* ------------------------------------------------------------ the engine
\* Mutant of OverrideTarget: the first field of the split is taken.
OverrideTargetFirstField(id) == IF Includes(id, Sep) THEN Split(id, Sep)[1] ELSE id

\* override.id.includes(';') ? override.id.split(';')[1] : override.id
OverrideTarget(id) == IF Includes(id, Sep) THEN Split(id, Sep)[2] ELSE id

\* Mutant of ShouldProcessNode: the visibility gate is missing.
ShouldProcessNodeIgnoringVisibility(n) ==
    IF options.nodeFilter.defined /\ ~(n \in options.nodeFilter.accepts) THEN FALSE
    ELSE TRUE

\* Mutant of ShouldProcessNode: the custom filter is not applied.
ShouldProcessNodeIgnoringFilter(n) ==
    IF ~IsVisible(nodes[n]) THEN FALSE ELSE TRUE

\* shouldProcessNode(node, options)
ShouldProcessNode(n) ==
    IF ~IsVisible(nodes[n]) THEN FALSE
    ELSE IF options.nodeFilter.defined /\ ~(n \in options.nodeFilter.accepts) THEN FALSE
    ELSE TRUE

\* Mutant of ShouldTraverseChildren: the depth test is off by one.
ShouldTraverseChildrenOffByOne(n, context) ==
    IF options.maxDepth.defined /\ context.currentDepth > options.maxDepth.value
    THEN FALSE
    ELSE IF nodes[n].type = "INSTANCE" /\ ~options.includeFullInstanceData
    THEN ( HasValueOverrides(nodes[n]) /\ IsArray(nodes[n].overrides)
           /\ Len(nodes[n].overrides.items) > 0 )
    ELSE TRUE

\* Mutant of ShouldTraverseChildren: instances are traversed like any node.
ShouldTraverseChildrenAnyInstance(n, context) ==
    IF options.maxDepth.defined /\ context.currentDepth >= options.maxDepth.value
    THEN FALSE
    ELSE TRUE

\* shouldTraverseChildren(node, context, options)
ShouldTraverseChildren(n, context) ==
    IF options.maxDepth.defined /\ context.currentDepth >= options.maxDepth.value
    THEN FALSE
    ELSE IF nodes[n].type = "INSTANCE" /\ ~options.includeFullInstanceData
    THEN ( HasValueOverrides(nodes[n]) /\ IsArray(nodes[n].overrides)
           /\ Len(nodes[n].overrides.items) > 0 )
    ELSE TRUE

\* Mutant of ChildContext: the parent reference is not updated.
ChildContextKeepsParent(context, n) ==
    [context EXCEPT !.currentDepth = context.currentDepth + 1]

\* The child context of a recursion step.
ChildContext(context, n) ==
    [context EXCEPT !.currentDepth = context.currentDepth + 1, !.parent = n]

\* Mutant of PrunesInstance: includeFullInstanceData is not consulted.
PrunesInstanceAlways(n) ==
    /\ nodes[n].type = "INSTANCE"
    /\ HasValueOverrides(nodes[n])

\* Whether the instance-pruning branch is taken for node n.
PrunesInstance(n) ==
    /\ nodes[n].type = "INSTANCE"
    /\ ~options.includeFullInstanceData
    /\ HasValueOverrides(nodes[n])

\* Building overrideNodeIds throws a TypeError: `overrides` has no map method,
\* or an entry has no id string to call includes on.
OverrideIdsThrow(n) ==
    \/ ~IsArray(nodes[n].overrides)
    \/ \E k \in 1..Len(nodes[n].overrides.items) : ~nodes[n].overrides.items[k].hasId

OverrideNodeIds(n) ==
    { OverrideTarget(nodes[n].overrides.items[k].id) :
        k \in 1..Len(nodes[n].overrides.items) }

\* Mutant of KeepsInstanceChild: only override targets are kept.
KeepsOnlyOverriddenChild(n, c) == nodes[c].id \in OverrideNodeIds(n)

\* The filter predicate over the children of a pruned instance.
KeepsInstanceChild(n, c) ==
    \/ nodes[c].id \in OverrideNodeIds(n)
    \/ ( HasValueChildren(nodes[c]) /\ IsArray(nodes[c].children)
         /\ Len(nodes[c].children.items) > 0 )

\* childrenToProcess of node n
ChildrenToProcess(n) ==
    IF PrunesInstance(n)
    THEN SelectSeq(nodes[n].children.items, LAMBDA c : KeepsInstanceChild(n, c))
    ELSE nodes[n].children.items

\* The base metadata of a result (`node` is the raw node the result was
\* created for; `fields` are the fields the extractors contributed, in order).
BaseResult(n) ==
    [ node        |-> n,
      id          |-> nodes[n].id,
      name        |-> nodes[n].name,
      type        |-> IF nodes[n].type = "VECTOR" THEN "IMAGE-SVG" ELSE nodes[n].type,
      fields      |-> <<>>,
      hasChildren |-> FALSE,
      children    |-> <<>> ]

\* The configured extractor list.
Extractors == [k \in 1..NumExtractors |-> k]

\* The extractor that interns styles.
WritesStyle(e) == e = Extractors[1]

\* One extractor call: extractor e appends its own field to the result; the
\* first extractor also interns the node's style in context.globalVars.
Extractor(e, n, acc, context) ==
    [ result |-> [acc.result EXCEPT !.fields = Append(@, e)],
      heap   |-> IF WritesStyle(e)
                 THEN [acc.heap EXCEPT ![context.globalVars] = @ \cup {n}]
                 ELSE acc.heap,
      calls  |-> Append(acc.calls,
                    [ node    |-> n,
                      ext     |-> e,
                      seen    |-> acc.result.fields,
                      context |-> context,
                      styles  |-> acc.heap[context.globalVars],
                      threw   |-> FALSE ]) ]

\* Mutant of ApplyExtractors: the list is walked from its end.
RECURSIVE ApplyExtractorsReversed(_, _, _, _)
ApplyExtractorsReversed(n, acc, context, k) ==
    IF k = 0 THEN acc
    ELSE Extractor(Extractors[NumExtractors + 1 - k], n,
                   ApplyExtractorsReversed(n, acc, context, k - 1), context)

\* for (const extractor of extractors) extractor(node, result, context), the
\* first k calls of the loop.
RECURSIVE ApplyExtractors(_, _, _, _)
ApplyExtractors(n, acc, context, k) ==
    IF k = 0 THEN acc
    ELSE Extractor(Extractors[k], n, ApplyExtractors(n, acc, context, k - 1), context)


\* ------------------------------------------------------------ the pass
\* The reference of the GlobalVars object the caller supplies.
CallerGlobalVars == 1

Idle == [ context |-> [globalVars |-> CallerGlobalVars, currentDepth |-> 0, parent |-> NoNode],
          todo |-> <<>>, processedNodes |-> <<>> ]
NoOutput == [nodes |-> <<>>, globalVars |-> NoNode]

MaxDepthOptions ==
    { [defined |-> FALSE, value |-> 0] }
    \cup { [defined |-> TRUE, value |-> d] : d \in 0..MaxDepthOpt }

NoNodeFilter == [defined |-> FALSE, accepts |-> NodeIds]

\* The gates of an input: at most one node is kept out, either by its
\* visibility flag or by the configured nodeFilter.
Gates ==
    { [invisible |-> NoNode, nodeFilter |-> NoNodeFilter] }
    \cup { [invisible |-> i, nodeFilter |-> NoNodeFilter] : i \in NodeIds }
    \cup { [invisible |-> NoNode,
            nodeFilter |-> [defined |-> TRUE, accepts |-> NodeIds \ {r}]] : r \in NodeIds }

Init ==
    /\ \E p \in Shapes, inst \in 0..MaxNodes, gate \in Gates,
          maxDepth \in MaxDepthOptions, full \in BOOLEAN :
         \E ov \in ( IF inst = NoNode THEN {NoOverrides}
                     ELSE OverridesFor({ j \in NodeIds : p[j] = inst }) ) :
            /\ nodes = [i \in NodeIds |-> RawNode(p, i, inst, ov, gate.invisible)]
            /\ options = [ maxDepth |-> maxDepth,
                           nodeFilter |-> gate.nodeFilter,
                           includeFullInstanceData |-> full ]
    /\ status = "idle"
    /\ error = "none"
    /\ top = Idle
    /\ stack = <<>>
    /\ heap = << {} >>
    /\ calls = <<>>
    /\ output = NoOutput
    /\ RetryIdle
    /\ HandlerIdle

\* extractFromDesign is entered: the root context is built and the root
\* nodes are filtered.
ExtractFromDesign ==
    /\ status = "idle"
    /\ status' = "running"
    /\ top' = [ context |-> [ globalVars |-> CallerGlobalVars,
                              currentDepth |-> 0,
                              parent |-> NoNode ],
                todo |-> SelectSeq(Roots, ShouldProcessNode),
                processedNodes |-> <<>> ]
    /\ UNCHANGED <<serviceVars, nodes, options, error, stack, heap, calls, output>>

\* The activation that is mapping over its children: the innermost
\* processNodeWithExtractors, or extractFromDesign itself.
Depth0 == stack = <<>>
CurTodo == IF Depth0 THEN top.todo ELSE stack[Len(stack)].todo
CurContext == IF Depth0 THEN top.context ELSE stack[Len(stack)].context

PopTodo ==
    IF Depth0
    THEN /\ top' = [top EXCEPT !.todo = Tail(@)]
         /\ stack' = stack
    ELSE /\ top' = top
         /\ stack' = [stack EXCEPT ![Len(stack)].todo = Tail(@)]

\* The frame pushed for node n once its extractors have run: the children
\* still to be mapped and the context they are mapped under.
Frame(n, result, context) ==
    LET descend == /\ ShouldTraverseChildren(n, context)
                   /\ HasValueChildren(nodes[n])
                   /\ Len(nodes[n].children.items) > 0
    IN [ node     |-> n,
         result   |-> result,
         context  |-> IF descend THEN ChildContext(context, n) ELSE context,
         todo     |-> IF descend
                      THEN SelectSeq(ChildrenToProcess(n), ShouldProcessNode)
                      ELSE <<>>,
         children |-> <<>> ]

\* Whether processing node n under `context` throws while pruning an instance.
PruningThrows(n, context) ==
    /\ ShouldTraverseChildren(n, context)
    /\ HasValueChildren(nodes[n])
    /\ Len(nodes[n].children.items) > 0
    /\ PrunesInstance(n)
    /\ OverrideIdsThrow(n)

\* processNodeWithExtractors is entered for the next child: the gate, the
\* base metadata, every extractor, then the decision on the children.
ProcessNode ==
    /\ status = "running"
    /\ CurTodo # <<>>
    /\ LET n == Head(CurTodo)
           context == CurContext
           acc == ApplyExtractors(n,
                     [result |-> BaseResult(n), heap |-> heap, calls |-> calls],
                     context, NumExtractors)
       IN IF ~ShouldProcessNode(n)
          THEN /\ PopTodo
               /\ UNCHANGED <<status, error, heap, calls>>
          ELSE /\ heap' = acc.heap
               /\ calls' = acc.calls
               /\ IF PruningThrows(n, context)
                  THEN /\ status' = "thrown"
                       /\ error' = "TypeError"
                       /\ UNCHANGED <<top, stack>>
                  ELSE /\ UNCHANGED <<status, error>>
                       /\ IF Depth0
                          THEN /\ top' = [top EXCEPT !.todo = Tail(@)]
                               /\ stack' = <<Frame(n, acc.result, context)>>
                          ELSE /\ top' = top
                               /\ stack' = Append(
                                     [stack EXCEPT ![Len(stack)].todo = Tail(@)],
                                     Frame(n, acc.result, context))
    /\ UNCHANGED <<serviceVars, nodes, options, output>>

\* Mutant of ExtractorThrows: the failure is swallowed and the nodes
\* processed so far are returned.
ExtractorThrowsSwallowed ==
    /\ status = "running"
    /\ CurTodo # <<>>
    /\ ShouldProcessNode(Head(CurTodo))
    /\ \E k \in 1..NumExtractors :
         LET n == Head(CurTodo)
             before == ApplyExtractors(n,
                          [result |-> BaseResult(n), heap |-> heap, calls |-> calls],
                          CurContext, k - 1)
         IN /\ heap' = before.heap
            /\ calls' = Append(before.calls,
                           [ node    |-> n,
                             ext     |-> Extractors[k],
                             seen    |-> before.result.fields,
                             context |-> CurContext,
                             styles  |-> before.heap[CurContext.globalVars],
                             threw   |-> TRUE ])
    /\ status' = "returned"
    /\ output' = [nodes |-> top.processedNodes, globalVars |-> top.context.globalVars]
    /\ UNCHANGED <<serviceVars, nodes, options, error, top, stack>>

\* The k-th extractor throws on the next child: nothing catches it, so the
\* exception leaves extractFromDesign.
ExtractorThrows ==
    /\ status = "running"
    /\ CurTodo # <<>>
    /\ ShouldProcessNode(Head(CurTodo))
    /\ \E k \in 1..NumExtractors :
         LET n == Head(CurTodo)
             before == ApplyExtractors(n,
                          [result |-> BaseResult(n), heap |-> heap, calls |-> calls],
                          CurContext, k - 1)
         IN /\ heap' = before.heap
            /\ calls' = Append(before.calls,
                           [ node    |-> n,
                             ext     |-> Extractors[k],
                             seen    |-> before.result.fields,
                             context |-> CurContext,
                             styles  |-> before.heap[CurContext.globalVars],
                             threw   |-> TRUE ])
    /\ status' = "thrown"
    /\ error' = "ExtractorError"
    /\ UNCHANGED <<serviceVars, nodes, options, top, stack, output>>

\* Mutant of Finished: the children field is always set.
FinishedAlwaysChildren(frame) ==
    [frame.result EXCEPT !.hasChildren = TRUE, !.children = frame.children]

\* The result of the innermost activation, with its children field set only
\* when some child was retained.
Finished(frame) ==
    IF Len(frame.children) > 0
    THEN [frame.result EXCEPT !.hasChildren = TRUE, !.children = frame.children]
    ELSE frame.result

\* processNodeWithExtractors returns to the activation that called it.
Return ==
    /\ status = "running"
    /\ stack # <<>>
    /\ stack[Len(stack)].todo = <<>>
    /\ LET frame == stack[Len(stack)]
           rest == SubSeq(stack, 1, Len(stack) - 1)
       IN IF rest = <<>>
          THEN /\ top' = [top EXCEPT !.processedNodes = Append(@, Finished(frame))]
               /\ stack' = rest
          ELSE /\ top' = top
               /\ stack' = [rest EXCEPT ![Len(rest)].children = Append(@, Finished(frame))]
    /\ UNCHANGED <<serviceVars, nodes, options, status, error, heap, calls, output>>

\* extractFromDesign returns the processed nodes and context.globalVars.
Finish ==
    /\ status = "running"
    /\ stack = <<>>
    /\ top.todo = <<>>
    /\ status' = "returned"
    /\ output' = [nodes |-> top.processedNodes, globalVars |-> top.context.globalVars]
    /\ UNCHANGED <<serviceVars, nodes, options, error, top, stack, heap, calls>>

Next == ExtractFromDesign \/ ProcessNode \/ ExtractorThrows \/ Return \/ Finish

Spec == Init /\ [][Next]_vars


\* ------------------------------------------------- what a pass produced
\* Every result in a sequence of results, with all their descendants.
RECURSIVE ResultsIn(_)
ResultsIn(seq) ==
    UNION { {seq[k]} \cup ResultsIn(seq[k].children) : k \in 1..Len(seq) }

\* The results of the value extractFromDesign returned.
Emitted == ResultsIn(output.nodes)
EmittedNodes == { r.node : r \in Emitted }

\* Every result that exists so far, finished or under construction.
Built ==
    Emitted \cup ResultsIn(top.processedNodes)
    \cup UNION { {stack[k].result} \cup ResultsIn(stack[k].children) :
                   k \in 1..Len(stack) }
BuiltNodes == { r.node : r \in Built }

\* The raw nodes some extractor was invoked on.
CalledNodes == { calls[k].node : k \in 1..Len(calls) }

Accepted(n) == ~options.nodeFilter.defined \/ n \in options.nodeFilter.accepts
HasRawChild(n) == \E j \in NodeIds : nodes[j].parent = n
\* Node n has an invisible node among itself and its ancestors.
Hidden(n) == \E a \in {n} \cup Ancestors(n) : ~nodes[a].visible
\* Node n has a filter-rejected node among itself and its ancestors.
Rejected(n) == \E a \in {n} \cup Ancestors(n) : ~Accepted(a)
\* The depth limit allows the children of a node at depth k.
BelowLimit(k) == ~options.maxDepth.defined \/ k < options.maxDepth.value
\* Node n is a root, or a child of an emitted node (one of `emitted`) that
\* hands on all its children.
Reached(n, emitted) ==
    \/ nodes[n].parent = NoNode
    \/ /\ nodes[n].parent \in emitted
       /\ BelowLimit(Depth(nodes[n].parent))
       /\ nodes[nodes[n].parent].type # "INSTANCE" \/ options.includeFullInstanceData
AllFields == Extractors

\* C1: no node with visible=false, and no descendant of such a node, is ever
\* part of a result, and no extractor is ever invoked on any of them.
C1_InvisibleSubtreeExcluded ==
    \A n \in BuiltNodes \cup CalledNodes : ~Hidden(n)

\* C1 witness: a pass returned with nodes emitted, and a visible node whose
\* invisible parent was reachable (root, or child of an emitted frame).
C1_Witness ==
    /\ status = "returned"
    /\ output.nodes # <<>>
    /\ ~options.nodeFilter.defined
    /\ \E n \in NodeIds :
         /\ nodes[n].visible
         /\ nodes[n].parent # NoNode
         /\ ~nodes[nodes[n].parent].visible
         /\ Reached(nodes[n].parent, EmittedNodes)
         /\ BelowLimit(Depth(nodes[n].parent))

\* C2: with maxDepth = d every result lies at depth at most d, a result at
\* depth d has no children field, and a reached node at depth d that passes
\* the gates is emitted with every extractor's field.
C2_DepthBound ==
    options.maxDepth.defined =>
        /\ \A r \in Built :
              /\ Depth(r.node) <= options.maxDepth.value
              /\ Depth(r.node) = options.maxDepth.value => ~r.hasChildren
        /\ status = "returned" =>
              LET emitted == Emitted
                  emittedNodes == { r.node : r \in emitted }
              IN \A n \in NodeIds :
                    ( /\ Depth(n) = options.maxDepth.value
                      /\ ShouldProcessNode(n)
                      /\ Reached(n, emittedNodes) )
                    => \E r \in emitted : r.node = n /\ r.fields = AllFields

\* C2 witness: a returned pass emitted a node at depth maxDepth whose raw
\* node has a visible, accepted child that only the depth limit keeps out.
C2_Witness ==
    /\ status = "returned"
    /\ options.maxDepth.defined
    /\ \E r \in Emitted :
         /\ Depth(r.node) = options.maxDepth.value
         /\ nodes[r.node].type = "FRAME"
         /\ r.fields = AllFields
         /\ \E c \in NodeIds :
              nodes[c].parent = r.node /\ nodes[c].visible /\ Accepted(c)

NoOverridesDeclared(n) ==
    \/ nodes[n].overrides.kind = "undefined"
    \/ nodes[n].overrides.kind = "array" /\ nodes[n].overrides.items = <<>>

\* C3: without includeFullInstanceData a result of an INSTANCE whose
\* overrides are absent or empty has no children field and has every
\* extractor's field; such an instance, when reached and passing the gates,
\* is emitted.
C3_InstanceWithoutOverrides ==
    ~options.includeFullInstanceData =>
        /\ \A r \in Built :
              (nodes[r.node].type = "INSTANCE" /\ NoOverridesDeclared(r.node))
              => (~r.hasChildren /\ r.children = <<>> /\ r.fields = AllFields)
        /\ status = "returned" =>
              LET emittedNodes == EmittedNodes
              IN \A n \in NodeIds :
                    ( /\ nodes[n].type = "INSTANCE"
                      /\ NoOverridesDeclared(n)
                      /\ ShouldProcessNode(n)
                      /\ Reached(n, emittedNodes) )
                    => n \in emittedNodes

\* C3 witness: a returned pass emitted an instance without overrides, below
\* the depth limit, whose raw node has a visible, accepted child.
C3_Witness ==
    /\ status = "returned"
    /\ ~options.includeFullInstanceData
    /\ \E r \in Emitted :
         /\ nodes[r.node].type = "INSTANCE"
         /\ NoOverridesDeclared(r.node)
         /\ BelowLimit(Depth(r.node))
         /\ Depth(r.node) > 0
         /\ \E c \in NodeIds :
              nodes[c].parent = r.node /\ nodes[c].visible /\ Accepted(c)

\* The position of the first separator of an id that has one.
FirstSep(id) == CHOOSE k \in 1..Len(id) : id[k] = Sep /\ \A j \in 1..(k - 1) : id[j] # Sep
\* The position of the next separator after position p, or just past the end.
NextSep(id, p) ==
    IF \E k \in (p + 1)..Len(id) : id[k] = Sep
    THEN CHOOSE k \in (p + 1)..Len(id) :
            id[k] = Sep /\ \A j \in (p + 1)..(k - 1) : id[j] # Sep
    ELSE Len(id) + 1
NumSeps(id) == Cardinality({ k \in 1..Len(id) : id[k] = Sep })
\* The target of an override id, by position: the characters between the
\* first separator and the next one (or the end); the whole id without one.
TargetOf(id) ==
    IF NumSeps(id) = 0 THEN id
    ELSE SubSeq(id, FirstSep(id) + 1, NextSep(id, FirstSep(id)) - 1)

DeclaresOverrides(n) ==
    nodes[n].overrides.kind = "array" /\ nodes[n].overrides.items # <<>>
WellFormedOverrides(n) ==
    \A k \in 1..Len(nodes[n].overrides.items) : nodes[n].overrides.items[k].hasId
Targets(n) ==
    { TargetOf(nodes[n].overrides.items[k].id) : k \in 1..Len(nodes[n].overrides.items) }
\* The children the claim expects of a pruned instance, in raw order.
ExpectedInstanceChildren(n) ==
    SelectSeq(nodes[n].children.items,
              LAMBDA c : /\ nodes[c].visible
                         /\ Accepted(c)
                         /\ (nodes[c].id \in Targets(n) \/ HasRawChild(c)))
NodesOf(seq) == [k \in 1..Len(seq) |-> seq[k].node]

\* C4: without includeFullInstanceData and below the depth limit, the emitted
\* children of an INSTANCE that declares overrides are exactly, in raw order,
\* its visible, accepted children that are an override target or have a child
\* of their own; and the pass fails with a TypeError only if some override
\* entry has no id.
C4_InstancePruning ==
    /\ (status = "returned" /\ ~options.includeFullInstanceData) =>
          \A r \in Emitted :
             ( /\ nodes[r.node].type = "INSTANCE"
               /\ DeclaresOverrides(r.node)
               /\ BelowLimit(Depth(r.node)) )
             => /\ NodesOf(r.children) = ExpectedInstanceChildren(r.node)
                /\ r.hasChildren = (r.children # <<>>)
    /\ (status = "thrown" /\ error = "TypeError") =>
          \E n \in NodeIds : DeclaresOverrides(n) /\ ~WellFormedOverrides(n)

\* C4 witness: a returned pass emitted a pruned instance that kept a child and
\* dropped a visible, accepted leaf child that no override targets.
C4_Witness ==
    /\ status = "returned"
    /\ ~options.includeFullInstanceData
    /\ \E r \in Emitted :
         /\ nodes[r.node].type = "INSTANCE"
         /\ DeclaresOverrides(r.node)
         /\ r.hasChildren
         /\ \E c \in NodeIds :
              /\ nodes[c].parent = r.node
              /\ nodes[c].visible /\ Accepted(c)
              /\ ~HasRawChild(c)
              /\ \A k \in 1..Len(r.children) : r.children[k].node # c

\* Every override id string of the input.
OverrideIds ==
    UNION { { nodes[n].overrides.items[k].id :
                k \in { j \in 1..Len(nodes[n].overrides.items) :
                          nodes[n].overrides.items[j].hasId } } : n \in NodeIds }

\* C5: the override target is the id itself when the id has no separator,
\* otherwise the field between the first separator and the next; for an id
\* with exactly one separator it is everything after the separator; and a
\* leaf child of a pruned instance is kept exactly when it passes the gates
\* and its id is such a target.
C5_OverrideTarget ==
    /\ (status = "returned" /\ ~options.includeFullInstanceData) =>
          \A r \in Emitted :
             ( /\ nodes[r.node].type = "INSTANCE"
               /\ DeclaresOverrides(r.node)
               /\ BelowLimit(Depth(r.node)) )
             => \A c \in NodeIds :
                   (nodes[c].parent = r.node /\ ~HasRawChild(c)) =>
                      ( (\E k \in 1..Len(r.children) : r.children[k].node = c)
                        <=> ( /\ nodes[c].visible
                              /\ Accepted(c)
                              /\ \E id \in OverrideIds : nodes[c].id = TargetOf(id) ) )
    /\ \A id \in OverrideIds :
        /\ OverrideTarget(id) = TargetOf(id)
        /\ NumSeps(id) = 0 => OverrideTarget(id) = id
        /\ NumSeps(id) = 1 => OverrideTarget(id) = SubSeq(id, FirstSep(id) + 1, Len(id))

\* C5 witness: a returned pass emitted a pruned instance whose only override
\* id has exactly one separator and names, after it, a leaf child that was
\* kept.
C5_Witness ==
    /\ status = "returned"
    /\ ~options.includeFullInstanceData
    /\ \E r \in Emitted :
         /\ nodes[r.node].type = "INSTANCE"
         /\ Len(nodes[r.node].overrides.items) = 1
         /\ nodes[r.node].overrides.items[1].hasId
         /\ NumSeps(nodes[r.node].overrides.items[1].id) = 1
         /\ \E k \in 1..Len(r.children) :
              /\ ~HasRawChild(r.children[k].node)
              /\ r.children[k].id = TargetOf(nodes[r.node].overrides.items[1].id)


Threw == \E k \in 1..Len(calls) : calls[k].threw

C7_EngineNeverThrows == status = "thrown" => Threw

\* C8: a node the configured nodeFilter rejects, and every descendant of it,
\* is never part of a result, and no extractor is ever invoked on any of them.
C8_RejectedSubtreeExcluded ==
    options.nodeFilter.defined =>
        \A n \in BuiltNodes \cup CalledNodes : ~Rejected(n)

\* C8 witness: a pass with a filter returned with nodes emitted, and an
\* accepted, visible node whose rejected parent was reachable.
C8_Witness ==
    /\ status = "returned"
    /\ output.nodes # <<>>
    /\ options.nodeFilter.defined
    /\ \E n \in NodeIds :
         /\ nodes[n].visible /\ Accepted(n)
         /\ nodes[n].parent # NoNode
         /\ nodes[nodes[n].parent].visible
         /\ ~Accepted(nodes[n].parent)
         /\ Reached(nodes[n].parent, EmittedNodes)
         /\ BelowLimit(Depth(nodes[n].parent))

\* The raw nodes of a sequence of results, parents before their children and
\* siblings left to right.
RECURSIVE PreOrder(_)
PreOrder(seq) ==
    IF seq = <<>> THEN <<>>
    ELSE <<Head(seq).node>> \o PreOrder(Head(seq).children) \o PreOrder(Tail(seq))

\* Every extractor of the list, in order, on each node of a sequence in turn.
ExpectedCalls(order) ==
    [ k \in 1..(Len(order) * NumExtractors) |->
        << order[((k - 1) \div NumExtractors) + 1],
           Extractors[((k - 1) % NumExtractors) + 1] >> ]

\* A sequence of raw nodes keeps the order of the raw sequence it is drawn from.
RECURSIVE InRawOrder(_, _)
InRawOrder(seq, rawSeq) ==
    IF seq = <<>> THEN TRUE
    ELSE IF rawSeq = <<>> THEN FALSE
    ELSE IF Head(seq) = Head(rawSeq) THEN InRawOrder(Tail(seq), Tail(rawSeq))
    ELSE InRawOrder(seq, Tail(rawSeq))

\* C9: in a returned pass the extractor calls are exactly: for each emitted
\* node, parents before children and siblings in raw order, every configured
\* extractor once in list order, each seeing the fields its predecessors
\* wrote to that node's result.
C9_ExtractorOrder ==
    status = "returned" =>
        /\ [k \in 1..Len(calls) |-> <<calls[k].node, calls[k].ext>>]
              = ExpectedCalls(PreOrder(output.nodes))
        /\ \A k \in 1..Len(calls) :
              calls[k].seen = SubSeq(Extractors, 1, (k - 1) % NumExtractors)
        /\ \A r \in Emitted :
              /\ r.fields = AllFields
              /\ InRawOrder(NodesOf(r.children), nodes[r.node].children.items)
        /\ InRawOrder(NodesOf(output.nodes), Roots)

\* C9 witness: a returned pass emitted a node with two children, the first of
\* which has a child of its own.
C9_Witness ==
    /\ status = "returned"
    /\ NumExtractors > 1
    /\ \E r \in Emitted : Len(r.children) > 1 /\ r.children[1].hasChildren

\* C10: every extractor call gets a context whose currentDepth is the depth
\* of the node, whose parent is the raw parent (none for a root) and whose
\* globalVars is the caller's object; a style interned by one call is in the
\* table seen by every later call; the returned globalVars is the caller's.
C10_ContextThreading ==
    /\ \A k \in 1..Len(calls) :
          /\ calls[k].context.currentDepth = Depth(calls[k].node)
          /\ calls[k].context.parent = nodes[calls[k].node].parent
          /\ calls[k].context.globalVars = CallerGlobalVars
    /\ \A i, j \in 1..Len(calls) :
          (i < j /\ WritesStyle(calls[i].ext) /\ ~calls[i].threw)
          => calls[i].node \in calls[j].styles
    /\ status = "returned" =>
          /\ output.globalVars = CallerGlobalVars
          /\ heap[output.globalVars] = EmittedNodes

\* C10 witness: a returned pass in which a call on a later root saw the style
\* interned for a node at depth two of an earlier subtree.
C10_Witness ==
    /\ status = "returned"
    /\ \E i, j \in 1..Len(calls) :
         /\ i < j
         /\ calls[i].context.currentDepth = 2
         /\ calls[i].context.parent # NoNode
         /\ calls[j].context.currentDepth = 0
         /\ calls[i].node \in calls[j].styles


\* C11: no result carries an empty children sequence: a result has a children
\* field exactly when at least one of its raw node's children was emitted.
C11_NoEmptyChildren ==
    /\ \A r \in Built : r.hasChildren = (r.children # <<>>)
    /\ status = "returned" =>
          LET emitted == Emitted
              emittedNodes == { r.node : r \in emitted }
          IN \A r \in emitted :
                r.hasChildren <=> \E c \in emittedNodes : nodes[c].parent = r.node

\* C11 witness: a returned pass emitted a frame below the depth limit whose
\* raw children were all kept out by a gate, and another node with children.
C11_Witness ==
    /\ status = "returned"
    /\ \E r \in Emitted :
         /\ nodes[r.node].type = "FRAME"
         /\ BelowLimit(Depth(r.node))
         /\ ~r.hasChildren
    /\ \E r \in Emitted : r.hasChildren

\* The children of raw node n that pass the visibility and filter gates.
GatedChildren(n) ==
    SelectSeq(nodes[n].children.items, LAMBDA c : nodes[c].visible /\ Accepted(c))

\* C12: with includeFullInstanceData an emitted INSTANCE below the depth
\* limit has exactly its visible, accepted children, in raw order, whatever
\* its overrides are.
C12_FullInstanceData ==
    (status = "returned" /\ options.includeFullInstanceData) =>
        \A r \in Emitted :
            (nodes[r.node].type = "INSTANCE" /\ BelowLimit(Depth(r.node)))
            => NodesOf(r.children) = GatedChildren(r.node)

\* C12 witness: a returned pass with includeFullInstanceData emitted an
\* instance together with a leaf child that none of its overrides targets.
C12_Witness ==
    /\ status = "returned"
    /\ options.includeFullInstanceData
    /\ \E r \in Emitted :
         /\ nodes[r.node].type = "INSTANCE"
         /\ \E k \in 1..Len(r.children) :
              /\ ~HasRawChild(r.children[k].node)
              /\ \A j \in 1..Len(nodes[r.node].overrides.items) :
                    /\ nodes[r.node].overrides.items[j].hasId
                    /\ TargetOf(nodes[r.node].overrides.items[j].id) # r.children[k].id
         /\ Len(nodes[r.node].overrides.items) > 0


\* ================================================================ withRetry
\* Largest config.maxAttempts a caller passes.
MaxAttempts == 3
\* Math.random() * 1000 lies in [0, JitterRange).
JitterRange == 1000
Jitters == {0, JitterRange \div 2, JitterRange - 1}

\* FigmaContextError.isRetryableByDefault.
IsRetryableByDefault(type) ==
    type \in { "NETWORK_ERROR", "TIMEOUT_ERROR", "RATE_LIMIT_ERROR", "API_ERROR" }

\* new FigmaContextError(options); options.retryable is <<>> when absent and
\* <<b>> when given as b.
FigmaContextError(obj, type, retryable, statusCode, message, cause) ==
    [ figma |-> TRUE, obj |-> obj, type |-> type,
      retryable |-> IF retryable = <<>> THEN IsRetryableByDefault(type)
                    ELSE retryable[1],
      status |-> statusCode, message |-> message, cause |-> cause ]

\* new Error(message), with a status property when status is defined.
RawError(obj, statusCode, message) ==
    [ figma |-> FALSE, obj |-> obj, type |-> "", retryable |-> FALSE,
      status |-> statusCode, message |-> message, cause |-> Undefined ]

\* String.prototype.toLowerCase, word by word.
LowerWord(w) ==
    CASE w = "Timeout" -> "timeout"
      [] w = "Connection" -> "connection"
      [] w = "Network" -> "network"
      [] w = "JSON" -> "json"
      [] w = "SyntaxError" -> "syntaxerror"
      [] w = "Unexpected" -> "unexpected"
      [] OTHER -> w
ToLowerCase(message) == [k \in 1..Len(message) |-> LowerWord(message[k])]
\* message.toLowerCase().includes(part), for the words the code looks for.
MessageIncludes(message, part) ==
    \E k \in 1..Len(message) :
        \/ ToLowerCase(message)[k] = part
        \/ part = "syntax" /\ ToLowerCase(message)[k] = "syntaxerror"
        \/ part = "fail" /\ ToLowerCase(message)[k] \in {"failed", "fail"}

\* categorizeError(error, context): the new FigmaContextError, with identity
\* obj.  The status code is read from the error object.
CategorizeError(e, obj) ==
    LET statusCode == e.status
        message == e.message
    IN  IF statusCode = 401
        THEN FigmaContextError(obj, "AUTHENTICATION_ERROR", <<>>, statusCode, message, e.obj)
        ELSE IF statusCode = 403
        THEN FigmaContextError(obj, "PERMISSION_ERROR", <<>>, statusCode, message, e.obj)
        ELSE IF statusCode = 404
        THEN FigmaContextError(obj, "NOT_FOUND_ERROR", <<>>, statusCode, message, e.obj)
        ELSE IF statusCode = 429
        THEN FigmaContextError(obj, "RATE_LIMIT_ERROR", <<TRUE>>, statusCode, message, e.obj)
        ELSE IF statusCode >= 500
        THEN FigmaContextError(obj, "API_ERROR", <<TRUE>>, statusCode, message, e.obj)
        ELSE IF \/ MessageIncludes(message, "network")
                \/ MessageIncludes(message, "timeout")
                \/ MessageIncludes(message, "connection")
        THEN FigmaContextError(obj,
                 IF MessageIncludes(message, "timeout") THEN "TIMEOUT_ERROR"
                 ELSE "NETWORK_ERROR",
                 <<>>, Undefined, message, e.obj)
        ELSE IF \/ MessageIncludes(message, "json")
                \/ MessageIncludes(message, "parse")
                \/ MessageIncludes(message, "syntax")
        THEN FigmaContextError(obj, "PARSING_ERROR", <<FALSE>>, Undefined, message, e.obj)
        ELSE FigmaContextError(obj, "UNKNOWN_ERROR", <<>>, statusCode, message, e.obj)

\* Identity of the j-th error object created during invocation k: 1 the
\* error the operation (or fetch) raised, 2 the error curl raised, 3 a
\* categorization made inside the operation, 4 one made by withRetry.
ObjOf(k, j) == 4 * (k - 1) + j

\* The configurations callers pass, merged over DEFAULT_RETRY_CONFIG.
Configs ==
    { [DEFAULT_RETRY_CONFIG EXCEPT !.maxAttempts = m, !.maxDelay = d,
                                   !.retryableErrors = re] :
        m \in 1..MaxAttempts,
        d \in {DefaultMaxDelay, DefaultBaseDelay + DefaultBaseDelay \div 2},
        re \in {DefaultRetryableErrors, {"NETWORK_ERROR"}} }

\* What an operation may resolve with.
Values == {"data", "other data"}
\* What invocation k of an arbitrary operation may reject with.
Rejections(k) ==
    { FigmaContextError(ObjOf(k, 1), t, <<r>>, Undefined, <<"boom">>, Undefined) :
        t \in {"NETWORK_ERROR", "PARSING_ERROR", "UNKNOWN_ERROR"}, r \in BOOLEAN }
    \cup { RawError(ObjOf(k, 1), Undefined, <<"boom">>),
           RawError(ObjOf(k, 1), Undefined, <<"Connection", "reset">>),
           RawError(ObjOf(k, 1), 404, <<"Not", "Found">>),
           RawError(ObjOf(k, 1), 503, <<"Service", "Unavailable">>) }

\* Math.pow(b, e) for a natural exponent.
RECURSIVE Pow(_, _)
Pow(b, e) == IF e = 0 THEN 1 ELSE b * Pow(b, e - 1)
Min(a, b) == IF a <= b THEN a ELSE b

\* The condition of withRetry's for loop.
LoopCondition(a) == a <= config.maxAttempts

\* Mutant of ShouldRetry: config.retryableErrors is not consulted.
ShouldRetryAnyType(a, e) == a < config.maxAttempts /\ e.retryable

\* shouldRetry after failed attempt a with categorized error e.
ShouldRetry(a, e) ==
    /\ a < config.maxAttempts
    /\ e.retryable
    /\ e.type \in config.retryableErrors

\* The backoff delay after failed attempt a, before the jitter.
Delay(a) ==
    Min(config.baseDelay * Pow(config.backoffFactor, a - 1), config.maxDelay)

\* withRetry is called: the loop starts with attempt 1.
WithRetry ==
    /\ pc = "idle"
    /\ attempt' = 1
    /\ pc' = IF LoopCondition(1) THEN "loop" ELSE "threw"
    /\ UNCHANGED <<engineVars, handlerVars, config, running, opResult, lastError,
                   invocations, waits, outcome, stages, fetchError>>

\* await operation(): the operation is invoked.
Invoke ==
    /\ pc = "loop"
    /\ pc' = "calling"
    /\ running' = running + 1
    /\ UNCHANGED <<engineVars, handlerVars, config, attempt, opResult, lastError,
                   invocations, waits, outcome, stages, fetchError>>

\* The pending invocation settles with result r.
Settle(r) ==
    /\ opResult' = r
    /\ invocations' = Append(invocations, [attempt |-> attempt, result |-> r])
    /\ running' = running - 1
    /\ pc' = IF r.ok THEN "resolved" ELSE "rejected"

\* An arbitrary operation resolves.
OperationResolves ==
    /\ pc = "calling"
    /\ \E v \in Values : Settle([ok |-> TRUE, value |-> v, error |-> NoError])
    /\ UNCHANGED <<engineVars, handlerVars, config, attempt, lastError, waits, outcome,
                   stages, fetchError>>

\* An arbitrary operation rejects.
OperationRejects ==
    /\ pc = "calling"
    /\ \E e \in Rejections(Len(invocations) + 1) :
          Settle([ok |-> FALSE, value |-> "", error |-> e])
    /\ UNCHANGED <<engineVars, handlerVars, config, attempt, lastError, waits, outcome,
                   stages, fetchError>>

\* Mutant of ReturnResult: a resolved attempt before the last is treated
\* like a failed one and the loop goes on.
ReturnResultKeepsLooping ==
    /\ pc = "resolved"
    /\ IF attempt < config.maxAttempts
       THEN /\ pc' = "loop"
            /\ attempt' = attempt + 1
            /\ UNCHANGED outcome
       ELSE /\ pc' = "returned"
            /\ outcome' = [kind |-> "returned", value |-> opResult.value,
                           error |-> NoError]
            /\ UNCHANGED attempt
    /\ UNCHANGED <<engineVars, handlerVars, config, running, opResult, lastError,
                   invocations, waits, stages, fetchError>>

\* return result.
ReturnResult ==
    /\ pc = "resolved"
    /\ pc' = "returned"
    /\ outcome' = [kind |-> "returned", value |-> opResult.value,
                   error |-> NoError]
    /\ UNCHANGED <<engineVars, handlerVars, config, attempt, running, opResult, lastError,
                   invocations, waits, stages, fetchError>>

\* The catch block: the error is categorized unless it is a
\* FigmaContextError already, then either thrown or followed by a wait.
Catch ==
    /\ pc = "rejected"
    /\ LET e == IF opResult.error.figma THEN opResult.error
                ELSE CategorizeError(opResult.error, ObjOf(Len(invocations), 4))
       IN /\ lastError' = e
          /\ IF ~ShouldRetry(attempt, e)
             THEN /\ pc' = "threw"
                  /\ outcome' = [kind |-> "threw", value |-> "", error |-> e]
                  /\ UNCHANGED waits
             ELSE /\ pc' = "waiting"
                  /\ \E jitter \in Jitters :
                        waits' = Append(waits, [ attempt |-> attempt,
                                                 delay |-> Delay(attempt),
                                                 wait |-> Delay(attempt) + jitter ])
                  /\ UNCHANGED outcome
    /\ UNCHANGED <<engineVars, handlerVars, config, attempt, running, opResult,
                   invocations, stages, fetchError>>

\* The timer fires: attempt++ and the loop condition is evaluated.
Wake ==
    /\ pc = "waiting"
    /\ attempt' = attempt + 1
    /\ IF LoopCondition(attempt + 1)
       THEN pc' = "loop" /\ UNCHANGED outcome
       ELSE /\ pc' = "threw"
            /\ outcome' = [kind |-> "threw", value |-> "", error |-> lastError]
    /\ UNCHANGED <<engineVars, handlerVars, config, running, opResult, lastError,
                   invocations, waits, stages, fetchError>>

\* The traversal variables of a behaviour that never runs a pass.
EngineIdle ==
    /\ nodes = <<>>
    /\ options = [ maxDepth |-> [defined |-> FALSE, value |-> 0],
                   nodeFilter |-> NoNodeFilter,
                   includeFullInstanceData |-> FALSE ]
    /\ status = "idle"
    /\ error = "none"
    /\ top = Idle
    /\ stack = <<>>
    /\ heap = << {} >>
    /\ calls = <<>>
    /\ output = NoOutput

InitRetry ==
    /\ EngineIdle
    /\ HandlerIdle
    /\ config \in Configs
    /\ attempt = 0
    /\ pc = "idle"
    /\ running = 0
    /\ opResult = NoResult
    /\ lastError = NoError
    /\ invocations = <<>>
    /\ waits = <<>>
    /\ outcome = NoOutcome
    /\ stages = <<>>
    /\ fetchError = NoError

NextRetry ==
    WithRetry \/ Invoke \/ OperationResolves \/ OperationRejects
        \/ ReturnResult \/ Catch \/ Wake

\* withRetry around an arbitrary operation.
SpecRetry == InitRetry /\ [][NextRetry]_vars

\* Invocations that resolved.
Successes == { k \in 1..Len(invocations) : invocations[k].result.ok }

\* C15: the operation is invoked at most maxAttempts times, never two at a
\* time and never after an invocation resolved, and withRetry returns what
\* the first resolved invocation resolved with.
C15_BoundedInvocations ==
    /\ running \in {0, 1}
    /\ Len(invocations) + running <= config.maxAttempts
    /\ \A k \in 1..Len(invocations) : invocations[k].attempt = k
    /\ \A k \in Successes : k = Len(invocations) /\ running = 0
    /\ pc = "returned" =>
          /\ Successes # {}
          /\ outcome.kind = "returned"
          /\ \A k \in Successes :
                (\A j \in Successes : k <= j)
                => outcome.value = invocations[k].result.value

\* C15 witness: withRetry returned the value of an invocation that followed
\* a failed one.
C15_Witness ==
    /\ pc = "returned"
    /\ Len(invocations) >= 2
    /\ ~invocations[1].result.ok
    /\ outcome.value = invocations[Len(invocations)].result.value

\* The error withRetry holds after failed invocation k.
CategorizedOf(k) ==
    LET e == invocations[k].result.error
    IN IF e.figma THEN e ELSE CategorizeError(e, ObjOf(k, 4))

\* Failed invocation k has been handled by the catch block.
Handled(k) ==
    /\ k \in 1..Len(invocations)
    /\ ~invocations[k].result.ok
    /\ (k = Len(invocations) => pc # "rejected")

WaitsAfter(k) == { j \in 1..Len(waits) : waits[j].attempt = k }

\* C16: a handled failed attempt n is followed by another attempt exactly
\* when n < maxAttempts and the categorized error is retryable with a type
\* in config.retryableErrors; otherwise that error is thrown, unwaited, and a
\* FigmaContextError raised by the operation is thrown as that very object.
C16_RetryDecision ==
    \A n \in 1..Len(invocations) :
        Handled(n) =>
            LET e == CategorizedOf(n)
                again == /\ n < config.maxAttempts
                         /\ e.retryable
                         /\ e.type \in config.retryableErrors
            IN /\ again =>
                    (n < Len(invocations) + running \/ pc \in {"waiting", "loop"})
               /\ ~again =>
                    /\ n = Len(invocations)
                    /\ running = 0
                    /\ pc = "threw"
                    /\ outcome.kind = "threw"
                    /\ outcome.error = e
                    /\ WaitsAfter(n) = {}
                    /\ invocations[n].result.error.figma
                          => outcome.error.obj = invocations[n].result.error.obj

\* C16 witness: after a retried first attempt, the second of three fails
\* with a retryable FigmaContextError whose type is not configured as
\* retryable, and is thrown as the same object.
C16_Witness ==
    /\ pc = "threw"
    /\ Len(invocations) = 2
    /\ config.maxAttempts > 2
    /\ outcome.error.retryable
    /\ outcome.error.type \notin config.retryableErrors
    /\ outcome.error.obj = invocations[2].result.error.obj
    /\ WaitsAfter(1) # {}

NotOkResponses ==
    { [status |-> 401, statusText |-> <<"Unauthorized">>],
      [status |-> 403, statusText |-> <<"Forbidden">>],
      [status |-> 404, statusText |-> <<"Not", "Found">>],
      [status |-> 429, statusText |-> <<"Too", "Many", "Requests">>],
      [status |-> 500, statusText |-> <<"Internal", "Server", "Error">>],
      [status |-> 504, statusText |-> <<"Gateway", "Timeout">>] }

\* new Error(`HTTP ${response.status}: ${response.statusText}`): the status
\* is part of the message only.
HttpError(k, res) ==
    RawError(ObjOf(k, 1), Undefined,
             <<"HTTP", ToString(res.status)>> \o res.statusText)

\* What fetch(url, options) may reject with.
FetchRejections(k) ==
    { RawError(ObjOf(k, 1), Undefined, <<"fetch", "failed">>),
      RawError(ObjOf(k, 1), Undefined, <<"Network", "unreachable">>) }
\* What response.json() may reject with.
BodyRejections(k) ==
    { RawError(ObjOf(k, 1), Undefined, <<"Unexpected", "token", "in", "JSON">>) }
\* What execAsync(curlCommand) may reject with.
CurlRejections(k) ==
    { RawError(ObjOf(k, 2), Undefined, <<"Command", "failed", "curl">>) }
\* stderr texts that make attemptCurlFallback throw inside its try block.
CurlStderrs ==
    { <<"curl", "(22)", "error", "404">>, <<"curl", "(35)", "Connection", "reset">> }

StageOf(k, stage, how, statusCode) ==
    [attempt |-> k, stage |-> stage, outcome |-> how, status |-> statusCode]

\* Mutant of FallsBack: every error caught around fetch goes to curl.
FallsBackAlways(e) == TRUE

\* The catch block around fetch: anything but a FigmaContextError makes the
\* operation fall back to curl.
FallsBack(e) == ~e.figma

\* The catch block around fetch, entered with error e.
FetchCatch(e) ==
    IF FallsBack(e)
    THEN /\ pc' = "fallback"
         /\ fetchError' = e
         /\ UNCHANGED <<opResult, invocations, running>>
    ELSE /\ Settle([ok |-> FALSE, value |-> "", error |-> e])
         /\ UNCHANGED fetchError

\* fetch resolves with an OK response whose body parses.
FetchResolves ==
    /\ pc = "calling"
    /\ stages' = Append(stages, StageOf(attempt, "fetch", "ok", 200))
    /\ \E v \in Values : Settle([ok |-> TRUE, value |-> v, error |-> NoError])
    /\ UNCHANGED <<engineVars, handlerVars, config, attempt, lastError, waits, outcome,
                   fetchError>>

\* fetch resolves with a non-OK response: the operation throws the
\* categorization of a new Error and its own catch block sees it.
FetchNotOk ==
    /\ pc = "calling"
    /\ \E res \in NotOkResponses :
          LET k == Len(invocations) + 1
          IN /\ stages' = Append(stages,
                              StageOf(attempt, "fetch", "notOk", res.status))
             /\ FetchCatch(CategorizeError(HttpError(k, res), ObjOf(k, 3)))
    /\ UNCHANGED <<engineVars, handlerVars, config, attempt, lastError, waits, outcome>>

\* fetch rejects, or the body of an OK response does not parse.
FetchRejects ==
    /\ pc = "calling"
    /\ LET k == Len(invocations) + 1
       IN \/ \E e \in FetchRejections(k) :
                /\ stages' = Append(stages,
                                 StageOf(attempt, "fetch", "rejected", Undefined))
                /\ FetchCatch(e)
          \/ \E e \in BodyRejections(k) :
                /\ stages' = Append(stages, StageOf(attempt, "fetch", "badBody", 200))
                /\ FetchCatch(e)
    /\ UNCHANGED <<engineVars, handlerVars, config, attempt, lastError, waits, outcome>>

\* attemptCurlFallback: curl exits with output that parses.
CurlResolves ==
    /\ pc = "fallback"
    /\ stages' = Append(stages, StageOf(attempt, "curl", "ok", Undefined))
    /\ \E v \in Values : Settle([ok |-> TRUE, value |-> v, error |-> NoError])
    /\ UNCHANGED <<engineVars, handlerVars, config, attempt, lastError, waits, outcome,
                   fetchError>>

\* attemptCurlFallback: execAsync rejects; the outer catch throws the
\* categorization of the original error.
CurlRejects ==
    /\ pc = "fallback"
    /\ LET k == Len(invocations) + 1
       IN \E e \in CurlRejections(k) :
             /\ stages' = Append(stages,
                              StageOf(attempt, "curl", "rejected", Undefined))
             /\ Settle([ ok |-> FALSE, value |-> "",
                         error |-> CategorizeError(fetchError, ObjOf(k, 3)) ])
    /\ UNCHANGED <<engineVars, handlerVars, config, attempt, lastError, waits, outcome,
                   fetchError>>

\* attemptCurlFallback: curl exits but its stderr, an empty stdout or an
\* unparsable stdout makes the try block throw a FigmaContextError, which the
\* outer catch rethrows.
CurlFails ==
    /\ pc = "fallback"
    /\ LET k == Len(invocations) + 1
       IN \/ \E stderr \in CurlStderrs :
                /\ stages' = Append(stages,
                                 StageOf(attempt, "curl", "stderr", Undefined))
                /\ Settle([ ok |-> FALSE, value |-> "",
                            error |-> CategorizeError(
                                RawError(ObjOf(k, 2), Undefined,
                                         <<"Curl", "command", "failed">> \o stderr),
                                ObjOf(k, 3)) ])
          \/ /\ stages' = Append(stages, StageOf(attempt, "curl", "empty", Undefined))
             /\ Settle([ ok |-> FALSE, value |-> "",
                         error |-> FigmaContextError(ObjOf(k, 2), "NETWORK_ERROR", <<>>,
                                       Undefined, <<"Curl", "command", "returned",
                                       "empty", "response">>, Undefined) ])
          \/ /\ stages' = Append(stages, StageOf(attempt, "curl", "badBody", Undefined))
             /\ Settle([ ok |-> FALSE, value |-> "",
                         error |-> FigmaContextError(ObjOf(k, 3), "PARSING_ERROR", <<>>,
                                       Undefined, <<"Failed", "to", "parse", "JSON",
                                       "response", "from", "curl">>, ObjOf(k, 2)) ])
    /\ UNCHANGED <<engineVars, handlerVars, config, attempt, lastError, waits, outcome,
                   fetchError>>

\* withRetry's own steps leave the stage log alone (stated by their
\* UNCHANGED lists); here they are the steps of fetchWithRetry.
InitFetch ==
    /\ EngineIdle
    /\ HandlerIdle
    /\ RetryIdle

NextFetch ==
    WithRetry \/ Invoke \/ FetchResolves \/ FetchNotOk \/ FetchRejects
        \/ CurlResolves \/ CurlRejects \/ CurlFails
        \/ ReturnResult \/ Catch \/ Wake

\* fetchWithRetry: withRetry with the default configuration around fetch
\* with its curl fallback.
SpecFetch == InitFetch /\ [][NextFetch]_vars

\* The type categorizeError has for a status code.
TypeOfStatus(s) ==
    CASE s = 401 -> "AUTHENTICATION_ERROR"
      [] s = 403 -> "PERMISSION_ERROR"
      [] s = 404 -> "NOT_FOUND_ERROR"
      [] s = 429 -> "RATE_LIMIT_ERROR"
      [] s >= 500 -> "API_ERROR"
      [] OTHER -> "UNKNOWN_ERROR"
RetryableStatus(s) == s = 429 \/ s >= 500

\* Attempt n was followed, or is about to be followed, by another attempt.
Retried(n) == n < Len(invocations) + running \/ pc \in {"waiting", "loop"}

\* C18: an attempt whose fetch got a non-OK response with status 401, 403,
\* 404, 429 or >= 500 raises an error with the type and retryable flag of
\* that status, so 429 and 5xx are retried and 401, 403 and 404 are not.
C18_StatusCategorization ==
    \A j \in 1..Len(stages) :
        LET n == stages[j].attempt
            s == stages[j].status
        IN (stages[j].outcome = "notOk" /\ n <= Len(invocations)) =>
              /\ invocations[n].result.error.type = TypeOfStatus(s)
              /\ invocations[n].result.error.retryable = RetryableStatus(s)
              /\ (Handled(n) /\ n < config.maxAttempts)
                    => (Retried(n) <=> RetryableStatus(s))

FetchStages(n) ==
    { j \in 1..Len(stages) : stages[j].attempt = n /\ stages[j].stage = "fetch" }
CurlStages(n) ==
    { j \in 1..Len(stages) : stages[j].attempt = n /\ stages[j].stage = "curl" }

\* C19: in every attempt curl runs at most once and only after a fetch that
\* rejected or whose body did not parse, it does run after such a fetch,
\* never after a non-OK response, and when execAsync rejects the attempt
\* raises the categorization of the original fetch error.
C19_CurlFallback ==
    /\ \A n \in 1..config.maxAttempts :
          /\ Cardinality(FetchStages(n)) <= 1
          /\ Cardinality(CurlStages(n)) <= 1
          /\ \A c \in CurlStages(n) :
                \E f \in FetchStages(n) :
                    f < c /\ stages[f].outcome \in {"rejected", "badBody"}
          /\ n <= Len(invocations) =>
                /\ Cardinality(FetchStages(n)) = 1
                /\ \A f \in FetchStages(n) :
                      /\ stages[f].outcome \in {"rejected", "badBody"}
                            => CurlStages(n) # {}
                      /\ stages[f].outcome = "notOk" => CurlStages(n) = {}
    /\ ( /\ stages # <<>>
         /\ stages[Len(stages)].stage = "curl"
         /\ stages[Len(stages)].outcome = "rejected" )
       => LET n == stages[Len(stages)].attempt
          IN /\ n = Len(invocations)
             /\ fetchError.obj = ObjOf(n, 1)
             /\ ~fetchError.figma
             /\ invocations[n].result.error
                    = CategorizeError(fetchError, ObjOf(n, 3))
             /\ invocations[n].result.error.cause = fetchError.obj

\* C19 witness: a second attempt fell back to curl after fetch rejected,
\* curl was rejected too, and withRetry threw the categorized fetch error;
\* the first attempt got a non-OK response and ran no curl.
C19_Witness ==
    /\ pc = "threw"
    /\ Len(invocations) = 2
    /\ CurlStages(1) = {}
    /\ \E f \in FetchStages(1) : stages[f].outcome = "notOk"
    /\ \E c \in CurlStages(2) : stages[c].outcome = "rejected"
    /\ outcome.error.cause = fetchError.obj

\* ============================================================ get_figma_data
\* allExtractors of ~/extractors/index.js, basic extractors first.
allExtractors ==
    <<"layoutExtractor", "textExtractor", "visualsExtractor", "componentExtractor">>

\* Mutant of BasicExtractors: the retry uses every extractor again.
BasicExtractorsAll == allExtractors

\* allExtractors.slice(0, 2).
BasicExtractors == SubSeq(allExtractors, 1, 2)

PartialWarning ==
    "Partial data extraction: Some advanced features may be missing due to processing errors."

\* What can throw inside simplifyRawFigmaObject run with a list of
\* extractors: one of them, or the traversal engine itself.
Throwers(extractors) ==
    { extractors[k] : k \in 1..Len(extractors) } \cup {"engine"}

\* The calls of the get_figma_data tool.
DataRequests ==
    { [ tool |-> "get_figma_data", fileKey |-> <<"a", "b", "1">>, nodeId |-> n,
        depth |-> d, includeFullInstanceData |-> f, outputFormat |-> fmt ] :
        n \in {"", "1:2"}, d \in {Undefined, 1}, f \in BOOLEAN,
        fmt \in {"yaml", "json"} }

\* A non-error tool response.
Content(warnings, components) ==
    [ returned |-> TRUE, isError |-> FALSE, errorType |-> "",
      warnings |-> warnings, components |-> components ]
\* An error tool response naming an error type.
ErrorContent(type) ==
    [ returned |-> TRUE, isError |-> TRUE, errorType |-> type,
      warnings |-> <<>>, components |-> <<>> ]

\* getFigmaData is entered.
GetFigmaData ==
    /\ hpc = "idle"
    /\ request.tool = "get_figma_data"
    /\ hpc' = "fetching"
    /\ UNCHANGED <<engineVars, retryVars, request, caught, design, extractions,
                   serviceCalls, todo, detailed, response>>

\* figmaService.getRawNode / getRawFile resolves or rejects.
GetRaw ==
    /\ hpc = "fetching"
    /\ serviceCalls' = Append(serviceCalls,
          [ method |-> IF request.nodeId # "" THEN "getRawNode" ELSE "getRawFile",
            target |-> request.nodeId ])
    /\ \/ hpc' = "extracting" /\ UNCHANGED caught
       \/ /\ hpc' = "catch"
          /\ \E e \in { FigmaContextError(1, "NOT_FOUND_ERROR", <<>>, 404,
                                          <<"Not", "Found">>, Undefined),
                        RawError(1, Undefined, <<"fetch", "failed">>) } :
                caught' = e
    /\ UNCHANGED <<engineVars, retryVars, request, design, extractions, todo,
                   detailed, response>>

\* simplifyRawFigmaObject(rawApiResponse, allExtractors, ...) returns or
\* throws.
SimplifyAll ==
    /\ hpc = "extracting"
    /\ \E t \in {"none"} \cup Throwers(allExtractors) :
          /\ extractions' = Append(extractions,
                                [extractors |-> allExtractors, thrower |-> t])
          /\ IF t = "none"
             THEN /\ design' = [ defined |-> TRUE, extractors |-> allExtractors,
                                 warnings |-> <<>> ]
                  /\ hpc' = "formatting"
                  /\ UNCHANGED caught
             ELSE /\ caught' = RawError(2, Undefined, <<t>>)
                  /\ hpc' = "degrading"
                  /\ UNCHANGED design
    /\ UNCHANGED <<engineVars, retryVars, request, serviceCalls, todo, detailed,
                   response>>

\* The retry of the same extraction with the basic extractors: it throws
\* again where the first run threw if that thrower is still taking part, and
\* otherwise may return or meet a later throw.
SimplifyBasic ==
    /\ hpc = "degrading"
    /\ LET first == caught.message[1]
           again == Throwers(BasicExtractors)
       IN \E t \in (IF first \in again THEN {first} ELSE {"none"} \cup again) :
             /\ extractions' = Append(extractions,
                                   [extractors |-> BasicExtractors, thrower |-> t])
             /\ IF t = "none"
                THEN /\ design' = [ defined |-> TRUE, extractors |-> BasicExtractors,
                                    warnings |-> <<PartialWarning>> ]
                     /\ hpc' = "formatting"
                     /\ UNCHANGED caught
                ELSE /\ caught' = FigmaContextError(3, "PARSING_ERROR", <<>>, Undefined,
                                      <<"Failed", "to", "extract", "design", "data">>, 2)
                     /\ hpc' = "catch"
                     /\ UNCHANGED design
    /\ UNCHANGED <<engineVars, retryVars, request, serviceCalls, todo, detailed,
                   response>>

\* The result is formatted and returned; design.warnings travels in the
\* result's metadata.
ReturnData ==
    /\ hpc = "formatting"
    /\ request.tool = "get_figma_data"
    /\ response' = Content(design.warnings, <<>>)
    /\ hpc' = "done"
    /\ UNCHANGED <<engineVars, retryVars, request, caught, design, extractions,
                   serviceCalls, todo, detailed>>

\* The outer catch of getFigmaData: the error is wrapped unless it is a
\* FigmaContextError and an error response is returned.
ReturnDataError ==
    /\ hpc = "catch"
    /\ request.tool = "get_figma_data"
    /\ LET figmaError ==
             IF caught.figma THEN caught
             ELSE FigmaContextError(4, "UNKNOWN_ERROR", <<>>, Undefined,
                                    caught.message, caught.obj)
       IN response' = ErrorContent(figmaError.type)
    /\ hpc' = "done"
    /\ UNCHANGED <<engineVars, retryVars, request, caught, design, extractions,
                   serviceCalls, todo, detailed>>

InitData ==
    /\ EngineIdle
    /\ RetryIdle
    /\ request \in DataRequests
    /\ hpc = "idle"
    /\ caught = NoError
    /\ design = NoDesign
    /\ extractions = <<>>
    /\ serviceCalls = <<>>
    /\ todo = <<>>
    /\ detailed = <<>>
    /\ response = NoResponse

NextData ==
    GetFigmaData \/ GetRaw \/ SimplifyAll \/ SimplifyBasic \/ ReturnData
        \/ ReturnDataError

\* One call of the get_figma_data handler.
SpecData == InitData /\ [][NextData]_vars

\* C13: a failed full extraction is retried exactly once, with the first
\* two extractors; a successful retry gives a non-error response with the
\* partial-extraction warning, a failed retry an error response of type
\* PARSING_ERROR, and a successful first extraction a response without
\* warning.
C13_PartialVersusTotal ==
    /\ Len(extractions) <= 2
    /\ Len(extractions) >= 1 => extractions[1].extractors = allExtractors
    /\ Len(extractions) = 2 =>
          /\ extractions[1].thrower # "none"
          /\ extractions[2].extractors = <<allExtractors[1], allExtractors[2]>>
    /\ hpc = "done" =>
          /\ response.returned
          /\ (Len(extractions) >= 1 /\ extractions[1].thrower # "none")
                => Len(extractions) = 2
          /\ (Len(extractions) = 2 /\ extractions[2].thrower = "none")
                => ~response.isError /\ response.warnings = <<PartialWarning>>
          /\ (Len(extractions) = 2 /\ extractions[2].thrower # "none")
                => response.isError /\ response.errorType = "PARSING_ERROR"
          /\ (Len(extractions) >= 1 /\ extractions[1].thrower = "none")
                => ~response.isError /\ response.warnings = <<>>

\* C13 witness: the full extraction threw, the retry returned and the
\* handler answered with the warning.
C13_Witness ==
    /\ hpc = "done"
    /\ Len(extractions) = 2
    /\ extractions[2].thrower = "none"
    /\ ~response.isError
    /\ response.warnings = <<PartialWarning>>

\* ====================================================== get_figma_components
\* Largest number of components the service lists.
MaxComponents == 3

\* The characters of [a-zA-Z0-9].
Alnum ==
    { "a", "b", "c", "d", "e", "f", "g", "h", "i", "j", "k", "l", "m",
      "n", "o", "p", "q", "r", "s", "t", "u", "v", "w", "x", "y", "z",
      "A", "B", "C", "D", "E", "F", "G", "H", "I", "J", "K", "L", "M",
      "N", "O", "P", "Q", "R", "S", "T", "U", "V", "W", "X", "Y", "Z",
      "0", "1", "2", "3", "4", "5", "6", "7", "8", "9" }

\* An optional parameter: absent, or given with a value.
Absent == [present |-> FALSE, value |-> <<>>]
Given(v) == [present |-> TRUE, value |-> v]
\* An absent optional Boolean.
AbsentFlag == [present |-> FALSE, value |-> FALSE]

\* File keys callers pass, as character sequences.
FileKeys ==
    { <<"a", "b", "c", "1", "2", "3">>, <<"a", "B", "c", "1", "X", "y">>,
      <<>>, <<"a", "b", "-", "1">>, <<"a", "b", " ", "1">>,
      <<".", ".", "/", "e", "t", "c">>, <<"a", "b", "c", "_">>,
      <<"<", "s", ">">> }

\* Mutant of MatchesFileKey: the pattern without its anchors.
MatchesFileKeyUnanchored(key) == \E k \in 1..Len(key) : key[k] \in Alnum

\* /^[a-zA-Z0-9]+$/ applied to a file key.
MatchesFileKey(key) ==
    /\ Len(key) >= 1
    /\ \A k \in 1..Len(key) : key[k] \in Alnum

\* parametersSchema.parse(params) does not throw.
SchemaAccepts(params) ==
    params.fileKey.present => MatchesFileKey(params.fileKey.value)

\* JavaScript truthiness of an optional string parameter.
Truthy(param) == param.present /\ param.value # <<>>

\* params.includeComponentDetails after .optional().default(false).
IncludeComponentDetails(params) ==
    params.includeComponentDetails.present /\ params.includeComponentDetails.value

\* The calls of the get_figma_components tool.  A component key is the
\* number of the component it names.
ComponentRequests ==
    { [ tool |-> "get_figma_components", fileKey |-> fk, teamId |-> t,
        includeComponentDetails |-> d, componentKey |-> ck ] :
        fk \in {Absent} \cup { Given(k) : k \in FileKeys },
        t \in {Absent, Given(<<"t", "1">>)},
        d \in {AbsentFlag, Given(TRUE), Given(FALSE)},
        ck \in {Absent, Given(<<1>>), Given(<<MaxComponents + 1>>)} }

\* response.meta.components: the first n published components.
Components(n) == [i \in 1..n |-> [key |-> <<i>>, node_id |-> i]]

\* components.filter(comp => comp.key === componentKey), or all of them.
TargetComponents(components, componentKey) ==
    IF Truthy(componentKey)
    THEN SelectSeq(components, LAMBDA comp : comp.key = componentKey.value)
    ELSE components

\* new Error(message) thrown by the handler's own checks.
HandlerError(message) == RawError(1, Undefined, message)

\* getFigmaComponents is entered: the parameters are parsed and checked.
GetFigmaComponents ==
    /\ hpc = "idle"
    /\ request.tool = "get_figma_components"
    /\ IF ~SchemaAccepts(request)
       THEN /\ caught' = HandlerError(<<"File", "key", "must", "be", "alphanumeric">>)
            /\ hpc' = "catch"
       ELSE IF ~Truthy(request.fileKey) /\ ~Truthy(request.teamId)
       THEN /\ caught' = HandlerError(<<"Either", "fileKey", "or", "teamId">>)
            /\ hpc' = "catch"
       ELSE IF Truthy(request.fileKey) /\ Truthy(request.teamId)
       THEN /\ caught' = HandlerError(<<"Only", "one", "of", "fileKey", "or", "teamId">>)
            /\ hpc' = "catch"
       ELSE IF Truthy(request.componentKey) /\ ~IncludeComponentDetails(request)
       THEN /\ caught' = HandlerError(<<"componentKey", "requires",
                                        "includeComponentDetails">>)
            /\ hpc' = "catch"
       ELSE /\ hpc' = "listing"
            /\ UNCHANGED caught
    /\ UNCHANGED <<engineVars, retryVars, request, design, extractions,
                   serviceCalls, todo, detailed, response>>

\* figmaService.getFileComponents / getTeamComponents resolves or rejects;
\* the targets of the details loop are chosen.
ListComponents ==
    /\ hpc = "listing"
    /\ LET method == IF Truthy(request.fileKey) THEN "getFileComponents"
                     ELSE "getTeamComponents"
       IN \/ /\ serviceCalls' = Append(serviceCalls,
                   [method |-> method, target |-> 0, resolved |-> FALSE, result |-> <<>>])
             /\ caught' = FigmaContextError(1, "NOT_FOUND_ERROR", <<>>, 404,
                                            <<"Not", "Found">>, Undefined)
             /\ hpc' = "catch"
             /\ UNCHANGED <<todo, detailed>>
          \/ \E n \in 0..MaxComponents :
                LET components == Components(n)
                    targets == TargetComponents(components, request.componentKey)
                IN /\ serviceCalls' = Append(serviceCalls,
                         [ method |-> method, target |-> 0, resolved |-> TRUE,
                           result |-> components ])
                   /\ IF IncludeComponentDetails(request) /\ Len(components) > 0
                      THEN IF Truthy(request.componentKey) /\ Len(targets) = 0
                           THEN /\ caught' = HandlerError(<<"Component", "not", "found">>)
                                /\ hpc' = "catch"
                                /\ UNCHANGED <<todo, detailed>>
                           ELSE /\ todo' = targets
                                /\ detailed' = <<>>
                                /\ hpc' = "details"
                                /\ UNCHANGED caught
                      ELSE /\ detailed' = [ i \in 1..n |->
                                             [ key |-> components[i].key,
                                               hasDesignData |-> FALSE,
                                               designData |-> "",
                                               hasError |-> FALSE ] ]
                           /\ hpc' = "formatting"
                           /\ UNCHANGED <<todo, caught>>
    /\ UNCHANGED <<engineVars, retryVars, request, design, extractions, response>>

\* An entry of detailedComponents: the component with designData (undefined
\* when the simplified node list is empty) or with an error text.
DetailEntry(component, how) ==
    [ key |-> component.key,
      hasDesignData |-> how \in {"node", "no node"},
      designData |-> IF how = "node" THEN "nodes[0]"
                     ELSE IF how = "no node" THEN "undefined" ELSE "",
      hasError |-> how \in {"getRawNode rejects", "simplify throws"} ]

\* What one pass of the details loop may meet.
DetailOutcomes == {"node", "no node", "getRawNode rejects", "simplify throws"}

\* Mutant of FetchDetail: a failure leaves the loop and reaches the outer
\* catch.
FetchDetailAborts ==
    /\ hpc = "details"
    /\ todo # <<>>
    /\ \E how \in DetailOutcomes :
          LET component == Head(todo)
          IN /\ serviceCalls' = Append(serviceCalls,
                   [ method |-> "getRawNode", target |-> component.node_id,
                     resolved |-> how # "getRawNode rejects", result |-> <<>> ])
             /\ extractions' =
                   IF how = "getRawNode rejects" THEN extractions
                   ELSE Append(extractions,
                               [ extractors |-> allExtractors,
                                 thrower |-> IF how = "simplify throws" THEN "engine"
                                             ELSE "none" ])
             /\ IF how \in {"getRawNode rejects", "simplify throws"}
                THEN /\ caught' = HandlerError(<<how>>)
                     /\ hpc' = "catch"
                     /\ UNCHANGED <<todo, detailed>>
                ELSE /\ detailed' = Append(detailed, DetailEntry(component, how))
                     /\ todo' = Tail(todo)
                     /\ hpc' = IF Tail(todo) = <<>> THEN "formatting" ELSE "details"
                     /\ UNCHANGED caught
    /\ UNCHANGED <<engineVars, retryVars, request, design, response>>

\* One pass of the details loop: the component's node is fetched and
\* simplified; a failure of either is caught inside the loop.
FetchDetail ==
    /\ hpc = "details"
    /\ todo # <<>>
    /\ \E how \in DetailOutcomes :
          LET component == Head(todo)
          IN /\ serviceCalls' = Append(serviceCalls,
                   [ method |-> "getRawNode", target |-> component.node_id,
                     resolved |-> how # "getRawNode rejects", result |-> <<>> ])
             /\ extractions' =
                   IF how = "getRawNode rejects" THEN extractions
                   ELSE Append(extractions,
                               [ extractors |-> allExtractors,
                                 thrower |-> IF how = "simplify throws" THEN "engine"
                                             ELSE "none" ])
             /\ detailed' = Append(detailed, DetailEntry(component, how))
    /\ todo' = Tail(todo)
    /\ hpc' = IF Tail(todo) = <<>> THEN "formatting" ELSE "details"
    /\ UNCHANGED <<engineVars, retryVars, request, caught, design, response>>

\* The result is formatted and returned.
ReturnComponents ==
    /\ hpc = "formatting"
    /\ request.tool = "get_figma_components"
    /\ response' = Content(<<>>, detailed)
    /\ hpc' = "done"
    /\ UNCHANGED <<engineVars, retryVars, request, caught, design, extractions,
                   serviceCalls, todo, detailed>>

\* The catch of getFigmaComponents returns an error response.
ReturnComponentsError ==
    /\ hpc = "catch"
    /\ request.tool = "get_figma_components"
    /\ response' = ErrorContent("")
    /\ hpc' = "done"
    /\ UNCHANGED <<engineVars, retryVars, request, caught, design, extractions,
                   serviceCalls, todo, detailed>>

InitComponents ==
    /\ EngineIdle
    /\ RetryIdle
    /\ request \in ComponentRequests
    /\ hpc = "idle"
    /\ caught = NoError
    /\ design = NoDesign
    /\ extractions = <<>>
    /\ serviceCalls = <<>>
    /\ todo = <<>>
    /\ detailed = <<>>
    /\ response = NoResponse

NextComponents ==
    GetFigmaComponents \/ ListComponents \/ FetchDetail \/ ReturnComponents
        \/ ReturnComponentsError

\* One call of the get_figma_components handler.
SpecComponents == InitComponents /\ [][NextComponents]_vars

\* The file key is empty or has a character outside [a-zA-Z0-9].
BadFileKey ==
    /\ request.fileKey.present
    /\ \/ request.fileKey.value = <<>>
       \/ \E k \in 1..Len(request.fileKey.value) :
             request.fileKey.value[k] \notin Alnum

\* C14: called with an empty or non-alphanumeric fileKey, get_figma_components
\* never calls the Figma service and returns a response with isError true.
C14_BadFileKeyRejected ==
    BadFileKey =>
        /\ serviceCalls = <<>>
        /\ hpc \in {"idle", "catch", "done"}
        /\ hpc = "done" => response.returned /\ response.isError

\* C14 witness: a key mixing alphanumerics with another character was
\* answered with an error response.
C14_Witness ==
    /\ hpc = "done"
    /\ BadFileKey
    /\ \E k \in 1..Len(request.fileKey.value) : request.fileKey.value[k] \in Alnum
    /\ response.isError
    /\ serviceCalls = <<>>

\* The components the listing call resolved with, and the loop's targets.
Listed ==
    IF serviceCalls # <<>> /\ serviceCalls[1].resolved
    THEN serviceCalls[1].result ELSE <<>>
DetailTargets ==
    IF request.componentKey.present /\ request.componentKey.value # <<>>
    THEN SelectSeq(Listed, LAMBDA comp : comp.key = request.componentKey.value)
    ELSE Listed
DetailCalls == SelectSeq(serviceCalls, LAMBDA call : call.method = "getRawNode")

====
